---- MODULE Spec2Model ----
(***************************************************************************)
(* A model of the selection prompt (SelectCardPrompt) and of the purge     *)
(* action (PurgeAction) of the keyteki rules engine.                       *)
(*                                                                         *)
(* Spec      : one SelectCardPrompt from its construction to its           *)
(*             completion, driven by card clicks, menu commands and the    *)
(*             driver loop's continue().                                   *)
(* SpecPurge : the resolution of purge actions through the event engine.   *)
(***************************************************************************)
EXTENDS Integers, Sequences, FiniteSets, TLC

(***************************************************************************)
(* Bounds of the model.                                                    *)
(***************************************************************************)
\* the largest cardinality bound (properties.numCards) a prompt is built with
MaxNumCards == 2
\* the largest value properties.maxStat() returns
MaxStat == 2
\* selectedCards is an array that can grow without limit; clicks are only
\* taken while it is shorter than this
MaxSelLen == 4
\* the number of purge actions resolved in one behaviour
MaxPurges == 2

(***************************************************************************)
(* The game: players and cards (game.allCards, in order).                  *)
(***************************************************************************)
Players == {"p1", "p2"}

\* the players prompts are constructed for
Choosers == {"p1"}

\* the cards that may carry markers of an earlier prompt
PreMarked == {"c1", "c2"}

AllCards == <<"c1", "c2", "c3">>

Cards == {AllCards[i] : i \in 1..Len(AllCards)}

\* card.controller
Controller(card) == IF card = "c2" THEN "p2" ELSE "p1"

\* card.getType()
GetType(card) == IF card = "c3" THEN "location" ELSE "character"

\* the value properties.cardStat(card) returns
CardStat(card) == IF card = "c2" THEN 2 ELSE 1

NoCard == "none"

VARIABLES
    \* card.selected, card.opponentSelected, card.selectable
    selected, opponentSelected, selectable,
    \* "none" before the prompt is constructed, then "active", then "complete"
    phase,
    \* this.choosingPlayer, this.properties
    choosingPlayer, properties,
    \* this.selectedCards, this.previouslySelectedCards
    selectedCards, previouslySelectedCards,
    \* history: the markers every card carried when the prompt was constructed
    markersAtCreation,
    \* history: the last call made on the prompt and what it did
    last,
    \* the other prompt, if there are two: the one that does not own the
    \* input at the moment (the variables above are those of the one that does)
    parked

promptVars == <<selected, opponentSelected, selectable, phase, choosingPlayer,
                properties, selectedCards, previouslySelectedCards,
                markersAtCreation, last, parked>>

VARIABLES
    \* card.location, card.purgedBy, player.purgedCards
    location, purgedBy, purgedCards,
    \* the power counters the reactions have granted, per reacting card
    counters,
    \* the registered reactions, in registration order
    reactions,
    \* the events being resolved, innermost last
    events,
    \* history: what has happened since the current purge action started
    trace,
    \* the number of purge actions started
    purges

purgeVars == <<location, purgedBy, purgedCards, counters, reactions, events,
               trace, purges>>

vars == <<promptVars, purgeVars>>

Range(s) == {s[i] : i \in 1..Len(s)}

AllFalse == [c \in Cards |-> FALSE]

(***************************************************************************)
(* The properties a prompt is constructed with.                            *)
(***************************************************************************)
\* properties.numCards as the caller passes it (absent: the default applies)
NumCardsInputs ==
    {[given |-> FALSE, value |-> 0]}
    \cup {[given |-> TRUE, value |-> n] : n \in 0..MaxNumCards}

\* properties.cardType (absent, a string or an array), properties.cardCondition
\* (the cards the caller's predicate holds of; absent: the default applies)
\* and properties.onCardToggle (given or not), as the caller passes them
FilterInputs ==
    { [ cardType |-> [kind |-> "absent", str |-> "", arr |-> <<>>],
        cardCondition |-> [given |-> FALSE, holdsOf |-> {}],
        onCardToggle |-> FALSE ],
      [ cardType |-> [kind |-> "string", str |-> "character", arr |-> <<>>],
        cardCondition |-> [given |-> FALSE, holdsOf |-> {}],
        onCardToggle |-> TRUE ],
      [ cardType |-> [kind |-> "array", str |-> "", arr |-> <<"character", "location">>],
        cardCondition |-> [given |-> TRUE, holdsOf |-> Cards \ {"c1"}],
        onCardToggle |-> TRUE ] }

\* properties.maxStat and properties.cardStat: which of the two is given,
\* and the value maxStat() returns
StatInputs ==
    {[hasMaxStat |-> FALSE, hasCardStat |-> FALSE, maxStat |-> 0]}
    \cup {[hasMaxStat |-> TRUE, hasCardStat |-> TRUE, maxStat |-> m] : m \in 0..MaxStat}
    \cup {[hasMaxStat |-> TRUE, hasCardStat |-> FALSE, maxStat |-> 1]}

\* defaultProperties(): numCards, cardCondition and cardType
DefaultNumCards == 1

DefaultCardCondition == Cards

DefaultCardType == {"attachment", "character", "event", "location"}

\* constructor: _.defaults(properties, defaultProperties()), then cardType is
\* wrapped in an array unless it is one
MakeProperties(nc, ms, fl, st) ==
    LET ct == fl.cardType
        cc == fl.cardCondition
    IN
    [ numCards |-> IF nc.given THEN nc.value ELSE DefaultNumCards,
      multiSelect |-> ms,
      cardType |-> IF ct.kind = "absent" THEN DefaultCardType
                   ELSE IF ct.kind = "array" THEN Range(ct.arr)
                   ELSE {ct.str},
      cardCondition |-> IF cc.given THEN cc.holdsOf ELSE DefaultCardCondition,
      hasMaxStat |-> st.hasMaxStat,
      hasCardStat |-> st.hasCardStat,
      maxStat |-> st.maxStat,
      hasOnCardToggle |-> fl.onCardToggle ]

\* the properties held before the prompt is constructed
NoProperties ==
    [ numCards |-> DefaultNumCards, multiSelect |-> FALSE,
      cardType |-> DefaultCardType, cardCondition |-> DefaultCardCondition,
      hasMaxStat |-> FALSE, hasCardStat |-> FALSE, maxStat |-> 0,
      hasOnCardToggle |-> FALSE ]

(***************************************************************************)
(* What a call on the prompt did: the callbacks it invoked (how often, with *)
(* what, and what the callback returned).                                  *)
(***************************************************************************)
NoParam == [kind |-> "none", card |-> NoCard, cards |-> <<>>]

NoCalls ==
    [ onSelect |-> 0, onSelectParam |-> NoParam, onCancel |-> 0,
      onMenuCommand |-> 0, onCardToggle |-> 0, returned |-> "none" ]

NoLast ==
    [ op |-> "none", player |-> "none", card |-> NoCard, arg |-> "",
      exit |-> "none", ret |-> "undefined", calls |-> NoCalls ]

\* no second prompt
NoParked ==
    [ which |-> "none", phase |-> "none", selectedCards |-> <<>>,
      previouslySelectedCards |-> <<>> ]

\* the mutable state the prompt's methods work on
Cur ==
    [ selected |-> selected, opponentSelected |-> opponentSelected,
      selectable |-> selectable, selectedCards |-> selectedCards,
      phase |-> phase, calls |-> NoCalls ]

(***************************************************************************)
(* createMaxStatCardCondition, checkCardCondition                          *)
(***************************************************************************)
RECURSIVE StatSum(_)
\* _.reduce(selectedCards, (sum, c) => sum + cardStat(c), 0)
StatSum(cards) ==
    IF cards = <<>> THEN 0
    ELSE CardStat(Head(cards)) + StatSum(Tail(cards))

\* the closure createMaxStatCardCondition returns
MaxStatCardCondition(s, card) ==
    IF card \notin properties.cardCondition THEN FALSE
    ELSE \/ CardStat(card) + StatSum(s.selectedCards) <= properties.maxStat
         \/ card \in Range(s.selectedCards)

\* this.cardCondition, as the constructor sets it
CardCondition(s, card) ==
    IF properties.hasMaxStat /\ properties.hasCardStat
    THEN MaxStatCardCondition(s, card)
    ELSE card \in properties.cardCondition

\* checkCardCondition without its test of the card's type
CheckCardConditionAnyType(s, card) == CardCondition(s, card)

CheckCardCondition(s, card) ==
    GetType(card) \in properties.cardType /\ CardCondition(s, card)

(***************************************************************************)
(* savePreviouslySelectedCards                                             *)
(***************************************************************************)
\* game.allCards.filter(card => card.selected || card.opponentSelected),
\* mapped to {card, selected, opponentSelected}
SavedSelections(sel, opp) ==
    LET marked == SelectSeq(AllCards, LAMBDA c : sel[c] \/ opp[c])
    IN  [i \in 1..Len(marked) |->
            [ card |-> marked[i], selected |-> sel[marked[i]],
              opponentSelected |-> opp[marked[i]] ]]

\* the markers once every saved card has had both of its markers cleared
ClearedOf(marker, saved) ==
    [c \in Cards |->
        IF \E i \in 1..Len(saved) : saved[i].card = c THEN FALSE ELSE marker[c]]

(***************************************************************************)
(* selectCard                                                              *)
(***************************************************************************)
\* the guard of selectCard: FALSE when the cardinality bound refuses the card
SelectCardAdmits(s, card) ==
    ~ ( /\ properties.numCards # 0
        /\ Len(s.selectedCards) >= properties.numCards
        /\ card \notin Range(s.selectedCards) )

\* the state selectCard leaves once the guard has admitted the card
SelectCardToggle(s, card) ==
    LET opp == IF choosingPlayer # Controller(card)
               THEN [s.opponentSelected EXCEPT ![card] = ~ @]
               ELSE s.opponentSelected
        sel == IF choosingPlayer # Controller(card)
               THEN s.selected
               ELSE [s.selected EXCEPT ![card] = ~ @]
        cards == IF sel[card] \/ opp[card]
                 THEN Append(s.selectedCards, card)
                 ELSE SelectSeq(s.selectedCards, LAMBDA c : c # card)
    IN  [ s EXCEPT !.selected = sel, !.opponentSelected = opp,
                   !.selectedCards = cards,
                   !.calls.onCardToggle =
                       IF properties.hasOnCardToggle THEN @ + 1 ELSE @ ]

(***************************************************************************)
(* clearSelection, complete, fireOnSelect                                  *)
(***************************************************************************)
RECURSIVE Restored(_, _, _)
\* _.each(previouslySelectedCards, selection => card[field] = selection[field])
Restored(marker, saved, field) ==
    IF saved = <<>> THEN marker
    ELSE Restored([marker EXCEPT ![Head(saved).card] = Head(saved)[field]],
                  Tail(saved), field)

\* clearSelection() without its last step, the restoring of previous selections
ClearSelectionNoRestore(s) ==
    [ s EXCEPT !.selected =
                   [c \in Cards |->
                       IF c \in Range(s.selectedCards) THEN FALSE ELSE s.selected[c]],
               !.opponentSelected =
                   [c \in Cards |->
                       IF c \in Range(s.selectedCards) THEN FALSE
                       ELSE s.opponentSelected[c]],
               !.selectedCards = <<>>,
               !.selectable = AllFalse ]

ClearSelection(s) ==
    LET sel == [c \in Cards |->
                   IF c \in Range(s.selectedCards) THEN FALSE ELSE s.selected[c]]
        opp == [c \in Cards |->
                   IF c \in Range(s.selectedCards) THEN FALSE
                   ELSE s.opponentSelected[c]]
    IN  [ s EXCEPT !.selected = Restored(sel, previouslySelectedCards, "selected"),
                   !.opponentSelected =
                       Restored(opp, previouslySelectedCards, "opponentSelected"),
                   !.selectedCards = <<>>,
                   !.selectable = AllFalse ]

\* complete(): clearSelection(), then UiPrompt.complete() marks the prompt
Complete(s) == [ClearSelection(s) EXCEPT !.phase = "complete"]

\* the value fireOnSelect hands to properties.onSelect
CardParam(s) ==
    IF properties.numCards = 1 /\ ~ properties.multiSelect
    THEN [kind |-> "card", card |-> s.selectedCards[1], cards |-> <<>>]
    ELSE [kind |-> "array", card |-> NoCard, cards |-> s.selectedCards]

\* fireOnSelect(), accepted being what properties.onSelect returns
FireOnSelect(s, accepted) ==
    LET called == [ s EXCEPT !.calls.onSelect = @ + 1,
                             !.calls.onSelectParam = CardParam(s),
                             !.calls.returned = ToString(accepted) ]
    IN  IF accepted THEN Complete(called) ELSE ClearSelection(called)

\* the same test without its look at multiSelect
SingleCardChosenAnyShape(s) ==
    /\ properties.numCards = 1
    /\ Len(s.selectedCards) = 1

\* the test onCardClicked makes after selectCard: fire onSelect at once?
SingleCardChosen(s) ==
    /\ properties.numCards = 1
    /\ Len(s.selectedCards) = 1
    /\ ~ properties.multiSelect

\* a menu command that drops the working selection when the handler
\* returns a falsy value
MenuCommandClears(s, result) ==
    LET called == [ s EXCEPT !.calls.onMenuCommand = @ + 1,
                             !.calls.returned = ToString(result) ]
    IN  IF result THEN Complete(called) ELSE ClearSelection(called)

\* onMenuCommand with an argument other than 'done'
MenuCommand(s, result) ==
    LET called == [ s EXCEPT !.calls.onMenuCommand = @ + 1,
                             !.calls.returned = ToString(result) ]
    IN  IF result THEN Complete(called) ELSE called

\* a cancellation that finalizes only when onCancel returns a truthy value
CancelIfTruthy(s, result) ==
    LET called == [ s EXCEPT !.calls.onCancel = @ + 1,
                             !.calls.returned = ToString(result) ]
    IN  IF result THEN Complete(called) ELSE called

\* onMenuCommand's last branch: 'done' with nothing selected
Cancel(s, result) ==
    Complete([ s EXCEPT !.calls.onCancel = @ + 1,
                        !.calls.returned = ToString(result) ])

(***************************************************************************)
(* The operations of the prompt.                                           *)
(***************************************************************************)
\* the variables a prompt method leaves in state s, having returned
Returned(s, call) ==
    /\ selected' = s.selected
    /\ opponentSelected' = s.opponentSelected
    /\ selectable' = s.selectable
    /\ selectedCards' = s.selectedCards
    /\ phase' = s.phase
    /\ last' = [call EXCEPT !.calls = s.calls]
    /\ UNCHANGED <<choosingPlayer, properties, previouslySelectedCards,
                   markersAtCreation, parked>>
    /\ UNCHANGED purgeVars

\* new SelectCardPrompt(game, player, properties)
Construct(player, nc, ms, fl, st) ==
    /\ phase = "none"
    /\ choosingPlayer' = player
    /\ properties' = MakeProperties(nc, ms, fl, st)
    /\ selectedCards' = <<>>
    /\ previouslySelectedCards' = SavedSelections(selected, opponentSelected)
    /\ selected' = ClearedOf(selected, previouslySelectedCards')
    /\ opponentSelected' = ClearedOf(opponentSelected, previouslySelectedCards')
    /\ markersAtCreation' =
           [c \in Cards |-> [ selected |-> selected[c],
                              opponentSelected |-> opponentSelected[c] ]]
    /\ phase' = "active"
    /\ last' = [NoLast EXCEPT !.op = "construct", !.player = player]
    /\ UNCHANGED <<selectable, parked>>
    /\ UNCHANGED purgeVars

\* highlightSelectableCards()
HighlightSelectableCards(s) ==
    [ s EXCEPT !.selectable =
        [c \in Cards |->
            IF GetType(c) \in properties.cardType
            THEN CardCondition(s, c)
            ELSE s.selectable[c]] ]

\* continue(), called by the driver loop on the prompt, once more after the
\* prompt has completed
Continue ==
    /\ phase # "none"
    /\ Returned(IF phase # "complete" THEN HighlightSelectableCards(Cur) ELSE Cur,
                [NoLast EXCEPT !.op = "continue"])

\* onCardClicked(player, card); accepted is what onSelect returns if called.
\* Input reaches the prompt only while it is the active one: a completed
\* prompt has been popped.
OnCardClicked(player, card, accepted) ==
    LET call == [NoLast EXCEPT !.op = "click", !.player = player, !.card = card]
        toggled == SelectCardToggle(Cur, card)
    IN  /\ phase = "active"
        /\ Len(selectedCards) < MaxSelLen
        /\ IF player # choosingPlayer
           THEN Returned(Cur, [call EXCEPT !.exit = "notChooser", !.ret = "false"])
           ELSE IF ~ CheckCardCondition(Cur, card)
           THEN Returned(Cur, [call EXCEPT !.exit = "condition", !.ret = "false"])
           ELSE IF ~ SelectCardAdmits(Cur, card)
           THEN Returned(Cur, [call EXCEPT !.exit = "numCards", !.ret = "false"])
           ELSE IF SingleCardChosen(toggled)
           THEN Returned(FireOnSelect(toggled, accepted),
                         [call EXCEPT !.exit = "fired"])
           ELSE Returned(toggled, [call EXCEPT !.exit = "toggled"])

\* onMenuCommand(player, arg); result is what the callback it reaches returns
OnMenuCommand(player, arg, result) ==
    LET call == [NoLast EXCEPT !.op = "menu", !.player = player, !.arg = arg]
    IN  /\ phase = "active"
        /\ IF player # choosingPlayer
           THEN Returned(Cur, [call EXCEPT !.exit = "notChooser", !.ret = "false"])
           ELSE IF arg # "done"
           THEN Returned(MenuCommand(Cur, result), [call EXCEPT !.exit = "command"])
           ELSE IF Len(selectedCards) > 0
           THEN Returned(FireOnSelect(Cur, result), [call EXCEPT !.exit = "fired"])
           ELSE Returned(Cancel(Cur, result), [call EXCEPT !.exit = "cancelled"])

(***************************************************************************)
(* The purge action and the events it is resolved through.                 *)
(***************************************************************************)
\* the composed part of the gigantic card
Parts == {"c1b"}

Objects == Cards \cup Parts

\* card.gigantic, card.composedPart
Gigantic(card) == card = "c1"

ComposedPart(card) == IF card = "c1" THEN "c1b" ELSE NoCard

\* the values of this.purgedBy: null (setDefaultProperties) or a player
NoPlayer == "none"

\* the cards that react to an event, and the event each reacts to
Reactors == {"r1", "r2"}

ReactsTo(reactor) == IF reactor = "r1" THEN "onCardLeavesPlay" ELSE "onCardPurged"

\* the state the purge action and the event engine work on
Game ==
    [ location |-> location, purgedBy |-> purgedBy, purgedCards |-> purgedCards,
      counters |-> counters, events |-> events, trace |-> trace ]

Logged(g, kind, name, card, by) ==
    [ g EXCEPT !.trace = Append(@, [ kind |-> kind, name |-> name, card |-> card,
                                     by |-> by, loc |-> g.location[card] ]) ]

\* player.moveCard(card, target): the card goes to target, its composed part
\* with it
MoveCard(g, card, target) ==
    [ g EXCEPT !.location =
        [o \in Objects |->
            IF o = card \/ (Gigantic(card) /\ o = ComposedPart(card))
            THEN target ELSE g.location[o]] ]

\* purge(card) without the bookkeeping of the composed part
PurgeWithoutPart(g, card, by) ==
    LET moved == MoveCard(g, card, "purged")
        listed ==
            IF by = NoPlayer THEN moved
            ELSE [ moved EXCEPT !.purgedCards[by] = Append(@, card),
                                !.purgedBy[card] = by ]
    IN  Logged(listed, "mutation", "purge", card, by)

\* purge(card), by being this.purgedBy
Purge(g, card, by) ==
    LET composedPart == IF Gigantic(card) THEN ComposedPart(card) ELSE NoCard
        moved == MoveCard(g, card, "purged")
        listed ==
            IF by = NoPlayer THEN moved
            ELSE [ moved EXCEPT
                     !.purgedCards[by] =
                         IF composedPart # NoCard
                         THEN Append(Append(@, card), composedPart)
                         ELSE Append(@, card),
                     !.purgedBy =
                         [o \in Objects |->
                             IF o = card \/ (composedPart # NoCard /\ o = composedPart)
                             THEN by ELSE moved.purgedBy[o]] ]
    IN  Logged(listed, "mutation", "purge", card, by)

\* game.raiseEvent(name, {card}, handler) and the raising of the event
\* createEvent built: the reactions matching the name are frozen, in
\* registration order
RaiseEvent(g, name, card, by) ==
    [ Logged(g, "raised", name, card, by) EXCEPT
        !.events = Append(@, [ name |-> name, card |-> card, by |-> by,
                               pending |-> SelectSeq(reactions,
                                              LAMBDA r : ReactsTo(r) = name),
                               handled |-> FALSE ]) ]

\* a handler that purges at once wherever the card is
PurgedHandlerDirect(g, card, by) == Purge(g, card, by)

\* a handler that nests the purge in onCardLeavesPlay wherever the card is
PurgedHandlerAlwaysNested(g, card, by) ==
    RaiseEvent(g, "onCardLeavesPlay", card, by)

\* a handler that does nothing for a card that is already purged
PurgedHandlerGuarded(g, card, by) ==
    IF g.location[card] = "purged" THEN g
    ELSE IF g.location[card] = "play area"
    THEN RaiseEvent(g, "onCardLeavesPlay", card, by)
    ELSE Purge(g, card, by)

\* the handler getEvent gives the onCardPurged event
PurgedHandler(g, card, by) ==
    IF g.location[card] = "play area"
    THEN RaiseEvent(g, "onCardLeavesPlay", card, by)
    ELSE Purge(g, card, by)

\* the handler of an event: getEvent's for onCardPurged, () => this.purge(card)
\* for the onCardLeavesPlay it raises
Handler(g, ev) ==
    IF ev.name = "onCardPurged"
    THEN PurgedHandler(g, ev.card, ev.by)
    ELSE Purge(g, ev.card, ev.by)

PurgeReturned(g) ==
    /\ location' = g.location
    /\ purgedBy' = g.purgedBy
    /\ purgedCards' = g.purgedCards
    /\ counters' = g.counters
    /\ events' = g.events
    /\ trace' = g.trace
    /\ UNCHANGED reactions
    /\ UNCHANGED promptVars

\* a purge action with this.purgedBy = by is resolved on card: the event
\* getEvent returns is raised
ResolvePurge(card, by) ==
    /\ events = <<>>
    /\ purges < MaxPurges
    /\ purges' = purges + 1
    /\ PurgeReturned(RaiseEvent([Game EXCEPT !.trace = <<>>], "onCardPurged", card, by))

\* the next frozen reaction to the innermost event resolves: the reacting
\* card gains a counter
ResolveReaction ==
    /\ events # <<>>
    /\ LET n == Len(events)
           ev == events[n]
       IN  /\ ~ ev.handled
           /\ ev.pending # <<>>
           /\ PurgeReturned(
                 [ Logged(Game, "reaction", ev.name, ev.card, ev.by) EXCEPT
                     !.counters[Head(ev.pending)] = @ + 1,
                     !.events[n].pending = Tail(ev.pending) ])
    /\ UNCHANGED purges

\* the reactions to the innermost event have settled: its handler runs
RunHandler ==
    /\ events # <<>>
    /\ LET n == Len(events)
           ev == events[n]
       IN  /\ ~ ev.handled
           /\ ev.pending = <<>>
           /\ PurgeReturned(Handler([Game EXCEPT !.events[n].handled = TRUE], ev))
    /\ UNCHANGED purges

\* the innermost event's handler has run and nothing it raised is left
Settle ==
    /\ events # <<>>
    /\ LET n == Len(events)
           ev == events[n]
       IN  /\ ev.handled
           /\ PurgeReturned(
                 [ Logged(Game, "settled", ev.name, ev.card, ev.by) EXCEPT
                     !.events = SubSeq(events, 1, n - 1) ])
    /\ UNCHANGED purges

MenuArgs == {"done", "extra"}

Init ==
    /\ selected \in [Cards -> BOOLEAN]
    /\ opponentSelected \in [Cards -> BOOLEAN]
    /\ \A c \in Cards \ PreMarked : ~ selected[c] /\ ~ opponentSelected[c]
    /\ \A c \in PreMarked : ~ (selected[c] /\ opponentSelected[c])
    /\ selectable = AllFalse
    /\ phase = "none"
    /\ choosingPlayer = "none"
    /\ properties = NoProperties
    /\ selectedCards = <<>>
    /\ previouslySelectedCards = <<>>
    /\ markersAtCreation =
           [c \in Cards |-> [selected |-> FALSE, opponentSelected |-> FALSE]]
    /\ last = NoLast
    /\ parked = NoParked
    /\ location = [o \in Objects |-> "play area"]
    /\ purgedBy = [o \in Objects |-> NoPlayer]
    /\ purgedCards = [p \in Players |-> <<>>]
    /\ counters = [r \in Reactors |-> 0]
    /\ reactions = <<>>
    /\ events = <<>>
    /\ trace = <<>>
    /\ purges = 0

Next ==
    \/ \E player \in Choosers, nc \in NumCardsInputs, ms \in BOOLEAN,
          fl \in FilterInputs, st \in StatInputs :
          Construct(player, nc, ms, fl, st)
    \/ Continue
    \/ \E player \in Players, card \in Cards, accepted \in BOOLEAN :
          OnCardClicked(player, card, accepted)
    \/ \E player \in Players, arg \in MenuArgs, result \in BOOLEAN :
          OnMenuCommand(player, arg, result)

Spec == Init /\ [][Next]_vars

(***************************************************************************)
(* SpecPurge: purge actions resolved on cards in and out of play.          *)
(***************************************************************************)
StartLocations == {"play area", "hand"}

Registrations == {<<>>, <<"r1">>, <<"r1", "r2">>, <<"r2", "r1">>}

PurgedByInputs == {NoPlayer, "p1"}

InitPurge ==
    /\ selected = AllFalse
    /\ opponentSelected = AllFalse
    /\ selectable = AllFalse
    /\ phase = "none"
    /\ choosingPlayer = "none"
    /\ properties = NoProperties
    /\ selectedCards = <<>>
    /\ previouslySelectedCards = <<>>
    /\ markersAtCreation =
           [c \in Cards |-> [selected |-> FALSE, opponentSelected |-> FALSE]]
    /\ last = NoLast
    /\ parked = NoParked
    /\ location \in [Objects -> StartLocations]
    /\ \A c \in Cards : Gigantic(c) => location[ComposedPart(c)] = location[c]
    /\ purgedBy = [o \in Objects |-> NoPlayer]
    /\ purgedCards = [p \in Players |-> <<>>]
    /\ counters = [r \in Reactors |-> 0]
    /\ reactions \in Registrations
    /\ events = <<>>
    /\ trace = <<>>
    /\ purges = 0

NextPurge ==
    \/ \E card \in Cards, by \in PurgedByInputs : ResolvePurge(card, by)
    \/ ResolveReaction
    \/ RunHandler
    \/ Settle

SpecPurge == InitPurge /\ [][NextPurge]_vars

(***************************************************************************)
(* SpecTwo: a second prompt is created before the first is finalized.      *)
(* Both prompts have the same deciding player and the same properties.     *)
(***************************************************************************)
\* a prompt that has been constructed and waits for the input
Waiting(which, cards, saved) ==
    [ which |-> which, phase |-> "pending", selectedCards |-> cards,
      previouslySelectedCards |-> saved ]

\* the second prompt is constructed while the first is active and is queued
\* behind it: its constructor saves and clears the markers it finds
QueueSecond ==
    LET saved == SavedSelections(selected, opponentSelected)
    IN  /\ phase = "active"
        /\ parked.which = "none"
        /\ parked' = Waiting("second", <<>>, saved)
        /\ selected' = ClearedOf(selected, saved)
        /\ opponentSelected' = ClearedOf(opponentSelected, saved)
        /\ last' = [NoLast EXCEPT !.op = "queue"]
        /\ UNCHANGED <<selectable, phase, choosingPlayer, properties,
                       selectedCards, previouslySelectedCards, markersAtCreation>>
        /\ UNCHANGED purgeVars

\* the second prompt is constructed while the first is active and is pushed
\* on top of it: the first waits until the second is finalized
PushSecond ==
    LET saved == SavedSelections(selected, opponentSelected)
    IN  /\ phase = "active"
        /\ parked.which = "none"
        /\ parked' = Waiting("first", selectedCards, previouslySelectedCards)
        /\ selectedCards' = <<>>
        /\ previouslySelectedCards' = saved
        /\ selected' = ClearedOf(selected, saved)
        /\ opponentSelected' = ClearedOf(opponentSelected, saved)
        /\ last' = [NoLast EXCEPT !.op = "push"]
        /\ UNCHANGED <<selectable, phase, choosingPlayer, properties,
                       markersAtCreation>>
        /\ UNCHANGED purgeVars

\* onMenuCommand(choosingPlayer, 'done') with cards selected: fireOnSelect
\* calls onSelect, which constructs the second prompt and returns true
OnSelectCreatesSecond ==
    LET saved == SavedSelections(selected, opponentSelected)
        inside == [ Cur EXCEPT !.selected = ClearedOf(selected, saved),
                               !.opponentSelected =
                                   ClearedOf(opponentSelected, saved) ]
        done == FireOnSelect(inside, TRUE)
    IN  /\ phase = "active"
        /\ parked.which = "none"
        /\ Len(selectedCards) > 0
        /\ parked' = Waiting("second", <<>>, saved)
        /\ selected' = done.selected
        /\ opponentSelected' = done.opponentSelected
        /\ selectable' = done.selectable
        /\ selectedCards' = done.selectedCards
        /\ phase' = done.phase
        /\ last' = [NoLast EXCEPT !.op = "menu", !.player = choosingPlayer,
                                  !.arg = "done", !.exit = "nested",
                                  !.calls = done.calls]
        /\ UNCHANGED <<choosingPlayer, properties, previouslySelectedCards,
                       markersAtCreation>>
        /\ UNCHANGED purgeVars

\* the finalized prompt is popped and the waiting one owns the input
NextPrompt ==
    /\ phase = "complete"
    /\ parked.phase = "pending"
    /\ parked' = [ which |-> IF parked.which = "first" THEN "second" ELSE "first",
                   phase |-> "complete", selectedCards |-> selectedCards,
                   previouslySelectedCards |-> previouslySelectedCards ]
    /\ selectedCards' = parked.selectedCards
    /\ previouslySelectedCards' = parked.previouslySelectedCards
    /\ phase' = "active"
    /\ last' = [NoLast EXCEPT !.op = "next"]
    /\ UNCHANGED <<selected, opponentSelected, selectable, choosingPlayer,
                   properties, markersAtCreation>>
    /\ UNCHANGED purgeVars

\* the properties the two prompts are constructed with
TwoNumCards == {[given |-> TRUE, value |-> 0], [given |-> FALSE, value |-> 0]}

TwoFilters == {fl \in FilterInputs : fl.cardType.kind = "absent"}

TwoStats == {st \in StatInputs : ~ st.hasMaxStat}

NextTwo ==
    \/ \E player \in Choosers, nc \in TwoNumCards, fl \in TwoFilters,
          st \in TwoStats :
          Construct(player, nc, FALSE, fl, st)
    \/ QueueSecond
    \/ PushSecond
    \/ OnSelectCreatesSecond
    \/ NextPrompt
    \/ Continue
    \/ \E player \in Choosers, card \in Cards, accepted \in BOOLEAN :
          OnCardClicked(player, card, accepted)
    \/ \E player \in Choosers, result \in BOOLEAN :
          OnMenuCommand(player, "done", result)

SpecTwo == Init /\ [][NextTwo]_vars

(***************************************************************************)
(* The properties of the prompt and of the purge action.                   *)
(***************************************************************************)
Entries(kind, name) ==
    {i \in 1..Len(trace) : trace[i].kind = kind /\ trace[i].name = name}

StartedInPlay == trace # <<>> /\ trace[1].loc = "play area"

LeavesPlayReactors ==
    {i \in 1..Len(reactions) : ReactsTo(reactions[i]) = "onCardLeavesPlay"}

\* C1: a purge resolved on a card in the play area runs in this order: the
\* onCardLeavesPlay event is raised, every reaction matching it resolves
\* while the card is still in the play area, then the mutation runs, and
\* only then does the onCardPurged event settle; no reaction to
\* onCardLeavesPlay sees the card at 'purged'.
NestedCausality ==
    /\ \A i \in Entries("reaction", "onCardLeavesPlay") :
          /\ trace[i].loc = "play area"
          /\ \E j \in Entries("raised", "onCardLeavesPlay") : j < i
          /\ \A j \in Entries("mutation", "purge") : i < j
    /\ StartedInPlay =>
          \A i \in Entries("mutation", "purge") :
             /\ \E j \in Entries("raised", "onCardLeavesPlay") : j < i
             /\ Cardinality({j \in Entries("reaction", "onCardLeavesPlay") : j < i})
                    = Cardinality(LeavesPlayReactors)
             /\ trace[i].loc = "purged"
             /\ purgedBy[trace[i].card] = trace[1].by
             /\ trace[1].by # NoPlayer =>
                    trace[i].card \in Range(purgedCards[trace[1].by])
    /\ \A i \in Entries("settled", "onCardPurged") :
          \E j \in Entries("mutation", "purge") : j < i

\* a purge of a card in play, with a reaction to its leaving, has settled
NestedCausalityWitness ==
    /\ events = <<>>
    /\ StartedInPlay
    /\ Entries("reaction", "onCardLeavesPlay") # {}
    /\ Entries("settled", "onCardPurged") # {}

Marked(c) == selected[c] \/ opponentSelected[c]

\* the cards onSelect was handed in the last call
Delivered(l) ==
    IF l.calls.onSelectParam.kind = "card"
    THEN {l.calls.onSelectParam.card}
    ELSE Range(l.calls.onSelectParam.cards)

\* C2: once the prompt is finalized (completed or cancelled), every card
\* has the two marker values it had when the prompt was created (so a card
\* that carried none has none) and no card is selectable.
RestoreOnExit ==
    phase = "complete" =>
        \A c \in Cards :
            /\ selected[c] = markersAtCreation[c].selected
            /\ opponentSelected[c] = markersAtCreation[c].opponentSelected
            /\ ~ selectable[c]

\* the prompt is finalized by an accepted selection that held a card marked
\* before the prompt was created
RestoreOnExitWitness ==
    /\ phase = "complete"
    /\ last.calls.onSelect = 1
    /\ \E c \in Delivered(last) :
          markersAtCreation[c].selected \/ markersAtCreation[c].opponentSelected
    /\ \E c \in Cards \ Delivered(last) : markersAtCreation[c].opponentSelected

\* C3: while the prompt is active a card has selected or opponentSelected
\* set only if it is in the working selection.
MarkersClearedWhileActive ==
    phase = "active" => \A c \in Cards : Marked(c) => c \in Range(selectedCards)

\* C4: with numCards = N > 0 the working selection never holds more than N
\* cards, and a click by the deciding player on a card outside a selection
\* that already holds N cards is rejected, the selection and all markers
\* unchanged.
CardinalityBound ==
    [][ /\ (phase' = "active" /\ properties'.numCards > 0) =>
               Len(selectedCards') <= properties'.numCards
        /\ ( /\ phase = "active"
             /\ last'.op = "click"
             /\ last'.player = choosingPlayer
             /\ properties.numCards > 0
             /\ Len(selectedCards) >= properties.numCards
             /\ last'.card \notin Range(selectedCards) ) =>
               /\ last'.ret = "false"
               /\ UNCHANGED <<selectedCards, selected, opponentSelected>>
      ]_vars

\* the caller's eligibility predicate and the type filter hold of the card
PassesFilters(c) ==
    GetType(c) \in properties.cardType /\ c \in properties.cardCondition

\* C5: a click by the deciding player on a card of the working selection
\* that passes the type filter and the caller's predicate is accepted and
\* removes the card from the selection, whatever the cardinality bound and
\* the accumulated stat are.
ToggleOffAlwaysLegal ==
    [][ ( /\ phase = "active"
          /\ last'.op = "click"
          /\ last'.player = choosingPlayer
          /\ last'.card \in Range(selectedCards)
          /\ PassesFilters(last'.card) ) =>
            /\ last'.ret # "false"
            /\ last'.card \notin Range(selectedCards')
      ]_vars

\* properties.maxStat and properties.cardStat are both given
StatLimited == properties.hasMaxStat /\ properties.hasCardStat

\* C6: with maxStat (M) and cardStat (S) both given, a click on a card
\* outside the selection is rejected when S of it plus the sum of S over the
\* selection exceeds M and accepted when that total is exactly M (the other
\* filters and the cardinality bound permitting); so the sum of S over the
\* working selection never exceeds M.
StatBound ==
    [][ /\ ( /\ phase = "active"
             /\ StatLimited
             /\ last'.op = "click"
             /\ last'.player = choosingPlayer
             /\ last'.card \notin Range(selectedCards) ) =>
               /\ CardStat(last'.card) + StatSum(selectedCards) > properties.maxStat
                     => last'.ret = "false"
               /\ ( /\ CardStat(last'.card) + StatSum(selectedCards) = properties.maxStat
                    /\ PassesFilters(last'.card)
                    /\ SelectCardAdmits(Cur, last'.card) )
                     => last'.ret # "false"
        /\ (phase' = "active" /\ properties'.hasMaxStat /\ properties'.hasCardStat) =>
               StatSum(selectedCards') <= properties'.maxStat
      ]_vars

\* C7: onSelect is handed the single selected card when numCards = 1 and
\* multiSelect is unset, a one-element collection when numCards = 1 and
\* multiSelect is set, and the collection of all selected cards otherwise.
ResultShape ==
    [][ last'.calls.onSelect > 0 =>
          LET param == last'.calls.onSelectParam
              chosen == IF last'.op = "click" THEN <<last'.card>> ELSE selectedCards
          IN  IF properties.numCards = 1 /\ ~ properties.multiSelect
              THEN param.kind = "card" /\ <<param.card>> = chosen
              ELSE IF properties.numCards = 1
              THEN param.kind = "array" /\ Len(param.cards) = 1
                   /\ param.cards = chosen
              ELSE param.kind = "array" /\ param.cards = chosen
      ]_vars

\* C8: an accepted card click invokes onSelect exactly when numCards = 1,
\* multiSelect is unset and the click leaves one card selected; in every
\* other configuration no click invokes it, and otherwise only the deciding
\* player's 'done' with a non-empty selection does.
OnSelectTiming ==
    [][ /\ last'.calls.onSelect <= 1
        /\ (last'.op = "click" /\ last'.calls.onSelect = 1) =>
               /\ last'.ret # "false"
               /\ properties.numCards = 1
               /\ ~ properties.multiSelect
               /\ last'.calls.onSelectParam.kind = "card"
               /\ last'.calls.onSelectParam.card = last'.card
        /\ (last'.op = "click" /\ last'.ret # "false" /\ last'.calls.onSelect = 0) =>
               ~ ( /\ properties.numCards = 1
                   /\ ~ properties.multiSelect
                   /\ Len(selectedCards') = 1 )
        /\ (last'.op = "click" /\ last'.ret = "false") => last'.calls.onSelect = 0
        /\ (last'.op # "click" /\ last'.calls.onSelect = 1) =>
               /\ last'.op = "menu"
               /\ last'.player = choosingPlayer
               /\ last'.arg = "done"
               /\ selectedCards # <<>>
      ]_vars

\* a click has invoked onSelect at once
OnSelectTimingWitness ==
    /\ last.op = "click"
    /\ last.calls.onSelect = 1
    /\ properties.numCards = 1
    /\ ~ properties.multiSelect

\* C9: when onSelect returns a truthy value the prompt is finalized; when
\* it returns a falsy value the prompt is not complete, the working
\* selection is empty, the markers of the cards that were in it are cleared
\* and the prompt stays active.
OnSelectOutcome ==
    [][ last'.calls.onSelect = 1 =>
          IF last'.calls.returned = "TRUE"
          THEN phase' = "complete"
          ELSE /\ phase' = "active"
               /\ selectedCards' = <<>>
               /\ \A c \in Delivered(last') :
                     ~ selected'[c] /\ ~ opponentSelected'[c]
      ]_vars

\* C10: 'done' from the deciding player with an empty working selection
\* invokes onCancel once, does not invoke onSelect, and finalizes the
\* prompt whatever onCancel returns.
DoneWithNothingCancels ==
    [][ ( /\ phase = "active"
          /\ last'.op = "menu"
          /\ last'.player = choosingPlayer
          /\ last'.arg = "done"
          /\ selectedCards = <<>> ) =>
            /\ last'.calls.onCancel = 1
            /\ last'.calls.onSelect = 0
            /\ phase' = "complete"
      ]_vars

\* the prompt was cancelled and onCancel returned a falsy value
DoneWithNothingCancelsWitness ==
    /\ last.op = "menu"
    /\ last.arg = "done"
    /\ last.calls.onCancel = 1
    /\ last.calls.returned = "FALSE"
    /\ phase = "complete"

\* the last call invoked none of the caller's callbacks
NoCallback(l) ==
    /\ l.calls.onSelect = 0
    /\ l.calls.onCancel = 0
    /\ l.calls.onMenuCommand = 0
    /\ l.calls.onCardToggle = 0

\* C11: a rejected input changes nothing: a click from a player other than
\* the deciding player, a click on a card that fails the type filter or the
\* eligibility predicate, a click refused by the cardinality bound and a
\* menu command from a player other than the deciding player leave the
\* working selection, every marker and the completion status unchanged and
\* invoke no callback.
RejectedInputChangesNothing ==
    [][ ( /\ phase = "active"
          /\ \/ /\ last'.op = "click"
                /\ \/ last'.player # choosingPlayer
                   \/ ~ PassesFilters(last'.card)
                   \/ /\ properties.numCards > 0
                      /\ Len(selectedCards) >= properties.numCards
                      /\ last'.card \notin Range(selectedCards)
             \/ /\ last'.op = "menu"
                /\ last'.player # choosingPlayer ) =>
            /\ UNCHANGED <<selectedCards, selected, opponentSelected, phase>>
            /\ NoCallback(last')
            /\ last'.ret = "false"
      ]_vars

\* the deciding player's click on a card of a filtered-out type was rejected
RejectedInputWitness ==
    /\ phase = "active"
    /\ last.op = "click"
    /\ last.player = choosingPlayer
    /\ GetType(last.card) \notin properties.cardType
    /\ last.ret = "false"
    /\ selectedCards # <<>>

\* C12: a prompt is never constructed with maxStat given and cardStat
\* missing (construction fails instead of ignoring the maximum).
StatBoundNeedsExtractor ==
    phase # "none" => ~ (properties.hasMaxStat /\ ~ properties.hasCardStat)

\* how often card x is in the list s
Count(s, x) == Cardinality({i \in 1..Len(s) : s[i] = x})

PurgedHandlerRuns ==
    /\ events # <<>>
    /\ ~ events[Len(events)].handled
    /\ events[Len(events)].pending = <<>>
    /\ events[Len(events)].name = "onCardPurged"
    /\ Len(events') >= Len(events)
    /\ events'[Len(events)].handled

\* C14: the purge raises onCardLeavesPlay if and only if the card is in the
\* play area when the handler of onCardPurged runs; for a card anywhere
\* else no leaves-play event is raised, no leaves-play reaction fires and
\* the mutation runs directly.
LeavesPlayOnlyFromPlay ==
    [][ /\ PurgedHandlerRuns =>
              LET n == Len(events)
                  card == events[n].card
              IN  IF location[card] = "play area"
                  THEN /\ Len(events') = n + 1
                       /\ events'[n + 1].name = "onCardLeavesPlay"
                       /\ events'[n + 1].card = card
                       /\ trace'[Len(trace')].kind = "raised"
                       /\ trace'[Len(trace')].name = "onCardLeavesPlay"
                       /\ location' = location
                  ELSE /\ Len(events') = n
                       /\ trace'[Len(trace')].kind = "mutation"
                       /\ location'[card] = "purged"
                       /\ \A i \in 1..Len(trace') :
                             trace'[i].name # "onCardLeavesPlay"
        /\ (\E i \in 1..Len(trace') : trace'[i].name = "onCardLeavesPlay") =>
              trace'[1].loc = "play area"
      ]_vars

\* a purge of a card in hand has settled while a reaction to
\* onCardLeavesPlay was registered
LeavesPlayOnlyFromPlayWitness ==
    /\ events = <<>>
    /\ trace # <<>>
    /\ trace[1].loc = "hand"
    /\ Entries("mutation", "purge") # {}
    /\ LeavesPlayReactors # {}

\* C15: while the prompt is active every card of the working selection
\* carries exactly one marker: selected if the deciding player controls
\* it, opponentSelected otherwise.
MarkerMatchesController ==
    phase = "active" =>
        \A c \in Range(selectedCards) :
            IF Controller(c) = choosingPlayer
            THEN selected[c] /\ ~ opponentSelected[c]
            ELSE opponentSelected[c] /\ ~ selected[c]

\* C16: a menu command of the deciding player with an argument other than
\* 'done' calls onMenuCommand once and neither onSelect nor onCancel; the
\* prompt is finalized if the handler returns a truthy value and otherwise
\* stays active with working selection and markers unchanged.
OtherCommandsRouted ==
    [][ ( /\ phase = "active"
          /\ last'.op = "menu"
          /\ last'.player = choosingPlayer
          /\ last'.arg # "done" ) =>
            /\ last'.calls.onMenuCommand = 1
            /\ last'.calls.onSelect = 0
            /\ last'.calls.onCancel = 0
            /\ IF last'.calls.returned = "TRUE"
               THEN phase' = "complete"
               ELSE /\ phase' = "active"
                    /\ UNCHANGED <<selectedCards, selected, opponentSelected>>
      ]_vars

\* a command other than 'done' was declined by the handler while cards
\* were selected
OtherCommandsRoutedWitness ==
    /\ phase = "active"
    /\ last.op = "menu"
    /\ last.arg # "done"
    /\ last.player = choosingPlayer
    /\ last.calls.onMenuCommand = 1
    /\ last.calls.returned = "FALSE"
    /\ selectedCards # <<>>

\* C18: the purge has no guard against repetition: when the handler runs
\* for a card that is already at 'purged' and an initiating player is set,
\* the mutation runs again, the card is appended to that player's purged
\* list once more and stamped again.
NoIdempotencyGuard ==
    [][ ( /\ PurgedHandlerRuns
          /\ location[events[Len(events)].card] = "purged"
          /\ events[Len(events)].by # NoPlayer ) =>
            LET card == events[Len(events)].card
                by == events[Len(events)].by
            IN  /\ Count(purgedCards'[by], card) = Count(purgedCards[by], card) + 1
                /\ purgedCards'[by][Len(purgedCards[by]) + 1] = card
                /\ purgedBy'[card] = by
                /\ trace'[Len(trace')].kind = "mutation"
                /\ location'[card] = "purged"
      ]_vars

\* a card is twice in the purged list of p1
NoIdempotencyGuardWitness ==
    /\ events = <<>>
    /\ \E c \in Cards :
          /\ Count(purgedCards["p1"], c) = 2
          /\ purgedBy[c] = "p1"
          /\ location[c] = "purged"

\* C20: the working selection of an active prompt holds no card twice.
NoDuplicateSelection ==
    phase = "active" =>
        \A i, j \in 1..Len(selectedCards) :
            i # j => selectedCards[i] # selectedCards[j]

\* both prompts have been finalized
BothFinalized ==
    /\ phase = "complete"
    /\ parked.which # "none"
    /\ parked.phase = "complete"

\* C17: when a second prompt was created before the first was finalized
\* (queued, pushed, or created in the first prompt's onSelect, which
\* accepts), then once both are finalized every card has the markers it had
\* before the first prompt was created.
RestoreAcrossPrompts ==
    BothFinalized =>
        \A c \in Cards :
            /\ selected[c] = markersAtCreation[c].selected
            /\ opponentSelected[c] = markersAtCreation[c].opponentSelected

====
